---- MODULE Spec2Model ----
(***************************************************************************)
(* Model of the project index of inbest-hub: the embedding-service         *)
(* (services/embedding-service: main.py, services/embedding_service.py)    *)
(* that keeps a ChromaDB collection of project entries, and the canonical  *)
(* project store of projects-service that it is meant to follow.           *)
(*                                                                         *)
(* The embedding-service runs its handlers as coroutines of one event      *)
(* loop.  A handler only gives up control at an await that really waits:   *)
(* the HTTP call of _get_project_owner and the HTTP call that fetches the  *)
(* listing in sync_all_projects.  Everything between two such awaits is    *)
(* one atomic action of the model.                                         *)
(***************************************************************************)
EXTENDS Integers, Sequences, FiniteSets, TLC

\* ---- bounds of the model ------------------------------------------------
MaxId == 2        \* project ids are 1..MaxId
MaxCalls == 2     \* index/update requests that may be in flight together
MaxRequests == 3  \* single-record requests the service takes in one behaviour

\* ---- values -------------------------------------------------------------
None == "None"                      \* Python's None, where a string may stand
NoId == 0                           \* project.id is None
Ids == 1..MaxId
Names == {"Torre", "Verde"}         \* the content versions of a record

\* schemas.py RealEstateProject, restricted to the fields that vary here;
\* every other Optional field keeps its default None.
RealEstateProject == [id : Ids \cup {NoId}, name : Names]

\* schemas.py ProjectOwner, as answered by the project-owners-service.
Acme == [name |-> "Acme", email |-> "ventas@acme.co"]
NoOwner == [name |-> None, email |-> None]   \* _get_project_owner returned None
OwnerAnswers == {NoOwner, Acme}

\* ---- the compositor -----------------------------------------------------
\* str.lower() on the words that occur.
Lower(w) ==
  CASE w = "Torre" -> "torre"
    [] w = "Verde" -> "verde"
    [] w = "Acme" -> "acme"
    [] w = "Cali" -> "cali"
    [] w = "Valle" -> "valle"
    [] w = "Bogota" -> "bogota"
    [] OTHER -> w

\* filter(None, parts): drops None and the empty string.
Truthy(w) == w # None /\ w # ""

\* create_project_search_text: the words of the text, in order.  A text is
\* modelled as the sequence of its blank-separated words.
create_project_search_text(project, owner) ==
  LET ownerParts == IF owner # NoOwner THEN <<owner.name, owner.email>> ELSE <<>>
      text_parts == <<project.name, "">>       \* name, description or ""
                    \o <<None, None, None>>    \* location, city, state (old schema)
                    \o <<None>>                \* property_type
                    \o ownerParts
      kept == SelectSeq(text_parts, Truthy)
  IN  [i \in 1..Len(kept) |-> Lower(kept[i])]

\* ---- the embedding generator --------------------------------------------
Vocab == {"torre", "verde", "acme", "ventas@acme.co"}

\* generate_embedding: a deterministic vector of the text (word counts).
generate_embedding(text) ==
  [w \in Vocab |-> Cardinality({i \in 1..Len(text) : text[i] = w})]

\* squared L2 distance, the default space of a ChromaDB collection.
RECURSIVE SumOver(_, _)
SumOver(f, S) ==
  IF S = {} THEN 0
  ELSE LET w == CHOOSE x \in S : TRUE
       IN  f[w] + SumOver(f, S \ {w})

Distance(u, v) ==
  SumOver([w \in Vocab |-> (u[w] - v[w]) * (u[w] - v[w])], Vocab)

\* ---- index entries ------------------------------------------------------
\* f"project_{project.id}"
EntryId(id) == "project_" \o ToString(id)

\* the metadata dict built by index_project
Metadata(project, owner, search_text) ==
  [ project_id  |-> project.id,
    name        |-> project.name,
    owner_name  |-> IF owner # NoOwner THEN owner.name ELSE "",
    amenities   |-> "[]",
    search_text |-> search_text ]

\* the entry index_project hands to collection.add
ComposeEntry(project, owner) ==
  LET search_text == create_project_search_text(project, owner)
  IN  [ id        |-> EntryId(project.id),
        embedding |-> generate_embedding(search_text),
        document  |-> search_text,
        metadata  |-> Metadata(project, owner, search_text) ]

\* ---- the vector store (ChromaDB collection) ------------------------------
\* The collection is the set of the entries it stores.
HasId(coll, eid) == \E e \in coll : e.id = eid

EntriesOf(coll, eid) == {e \in coll : e.id = eid}

EntryOf(coll, eid) == CHOOSE e \in coll : e.id = eid

\* a store whose add does not look at the ids it already holds
CollectionAdd_Blind(coll, entry) == coll \cup {entry}

\* collection.add: an id that is already stored is skipped without an error.
CollectionAdd(coll, entry) ==
  IF HasId(coll, entry.id) THEN coll ELSE coll \cup {entry}

\* a store whose delete removes nothing
CollectionDelete_Keeps(coll, eid) == coll

\* collection.delete(ids=[eid]): removes the entry, no error when absent.
CollectionDelete(coll, eid) == {e \in coll : e.id # eid}

\* collection.count()
CollectionCount(coll) == Cardinality(coll)

\* collection.query(query_embeddings=[q], n_results=n): the n nearest entries,
\* best match first; entries at the same distance come in the order of their
\* project ids.
Before(q, d, e) ==
  \/ Distance(q, d.embedding) < Distance(q, e.embedding)
  \/ /\ Distance(q, d.embedding) = Distance(q, e.embedding)
     /\ d.metadata.project_id < e.metadata.project_id

Rank(coll, q, e) == Cardinality({d \in coll : Before(q, d, e)})

CollectionQuery(coll, q, n) ==
  LET m == IF n < Cardinality(coll) THEN n ELSE Cardinality(coll)
  IN  [k \in 1..m |-> CHOOSE e \in coll : Rank(coll, q, e) = k - 1]

\* a search that keeps the hits whose score is at most the threshold
search_projects_AtMost(coll, query, max_results, similarity_threshold) ==
  LET q == generate_embedding(query)
      hits == CollectionQuery(coll, q, max_results)
      search_results == [k \in 1..Len(hits) |->
                           [ id       |-> hits[k].id,
                             score    |-> Distance(q, hits[k].embedding),
                             metadata |-> hits[k].metadata,
                             document |-> hits[k].document ]]
  IN  SelectSeq(search_results, LAMBDA r : r.score <= similarity_threshold)

\* search_projects: one SearchResult per hit, score = the distance the store
\* reports, then the hits whose score >= similarity_threshold.
search_projects(coll, query, max_results, similarity_threshold) ==
  LET q == generate_embedding(query)
      hits == CollectionQuery(coll, q, max_results)
      search_results == [k \in 1..Len(hits) |->
                           [ id       |-> hits[k].id,
                             score    |-> Distance(q, hits[k].embedding),
                             metadata |-> hits[k].metadata,
                             document |-> hits[k].document ]]
  IN  SelectSeq(search_results, LAMBDA r : r.score >= similarity_threshold)

\* the requests a client may send to POST /search
Queries == {<<"torre">>, <<"verde", "acme">>}
ResultCaps == {1, 2}
Thresholds == {0, 2}

\* ---- index_project -------------------------------------------------------
\* an index_project that writes the entry before the store raises
index_project_WritesThenFails(coll, project, owner, embedOk, storeOk) ==
  IF ~embedOk THEN [coll |-> coll, ok |-> FALSE]
  ELSE IF project.id = NoId THEN [coll |-> coll, ok |-> FALSE]
  ELSE [coll |-> CollectionAdd(coll, ComposeEntry(project, owner)), ok |-> storeOk]

\* index_project once the owner lookup has answered: the collection it
\* leaves and the boolean it returns.  embedOk = FALSE: generate_embedding
\* raises; storeOk = FALSE: get_or_create_collection or collection.add raises.
index_project(coll, project, owner, embedOk, storeOk) ==
  IF ~embedOk THEN [coll |-> coll, ok |-> FALSE]
  ELSE IF ~storeOk THEN [coll |-> coll, ok |-> FALSE]
  ELSE IF project.id = NoId THEN [coll |-> coll, ok |-> FALSE]
  ELSE [coll |-> CollectionAdd(coll, ComposeEntry(project, owner)), ok |-> TRUE]

\* a delete_project that reports success and leaves the entry
delete_project_Keeps(coll, project_id, storeOk) ==
  IF ~storeOk THEN [coll |-> coll, ok |-> FALSE]
  ELSE [coll |-> coll, ok |-> TRUE]

\* delete_project: the collection it leaves and the boolean it returns.
delete_project(coll, project_id, storeOk) ==
  IF ~storeOk THEN [coll |-> coll, ok |-> FALSE]
  ELSE [coll |-> CollectionDelete(coll, EntryId(project_id)), ok |-> TRUE]

\* ---- the canonical store (projects-service) -------------------------------
\* a row of the projects table: models.py Project (name, is_active)
NoRow == [name |-> None, is_active |-> FALSE]
Rows == [name : Names, is_active : BOOLEAN]

\* ProjectsService.get_projects(active_only=True), as GET /projects answers:
\* the active rows in id order, each as the record sync_all_projects parses.
RECURSIVE Listing(_, _)
Listing(store, i) ==
  IF i > MaxId THEN <<>>
  ELSE (IF store[i] # NoRow /\ store[i].is_active
          THEN <<[id |-> i, name |-> store[i].name]>> ELSE <<>>)
       \o Listing(store, i + 1)

\* ---- state -----------------------------------------------------------------
VARIABLES
  canon,        \* projects-service: the projects table, by id
  collection,   \* embedding-service: the real_estate_projects collection
  calls,        \* the index/update requests waiting for their owner lookup
  sync,         \* the bulk resync request, if one is running
  last,         \* the last step that reached the collection, and its answer
  taken,        \* the number of single-record requests taken so far
  found,        \* embedding-service: the last POST /search and its answer
  composed,     \* embedding-service: the last record composed for the index
  chat          \* chat-api: the last search of SearchService and its output

vars == <<canon, collection, calls, sync, last, taken, found, composed, chat>>

\* the state the single-record requests, the resync and the canonical store
\* work on, and the rest
service == <<canon, collection, calls, sync, last, taken>>
others == <<found, composed, chat>>

NoFound == [query |-> <<>>, max_results |-> 0, similarity_threshold |-> 0,
            results |-> <<>>]
NoComposed == [on |-> FALSE]
NoChat == [on |-> FALSE]

\* A waiting request: what it is, its record and, for an update, whether the
\* id had an entry when the request came in.  Two waiting requests differ in
\* their operation or their record.
Calls == [op : {"index", "update"}, project : RealEstateProject, had : BOOLEAN]

NoCalls == {}

NoSync == [pc |-> "idle", fetch |-> "none", queue |-> <<>>, total_projects |-> 0,
           indexed_count |-> 0, error_count |-> 0]

\* no earlier delivery is being repeated
NoRedo == [on |-> FALSE, owner |-> NoOwner, entries |-> {}]

\* the status code main.py answers with for a boolean result
StatusOf(ok) == IF ok THEN 200 ELSE 500

\* What `last` records of a step: the operation, its record, the boolean it
\* returned, whether the embedding model or the store raised; for a step that
\* returned True also the owner answer it used, and what it found and left:
\*   had     - the id had an entry before the step (for a finished update,
\*             failed ones included: when the update came in)
\*   overlap - a request on the same id that was waiting together with the
\*             finished one is still waiting, and none has come in since
\*   redo    - for a request that repeats the request answered with True just
\*             before (same operation, same record, nothing else reaching the
\*             collection in between): the owner answer of that first
\*             delivery and the entries it left for the id
\*   status  - the status code the request was answered with
\*   action  - for a webhook request that was refused, the action it named
Step(op, project, owner, ok, fault) ==
  [op |-> op, project |-> project, owner |-> IF ok THEN owner ELSE NoOwner,
   ok |-> ok, fault |-> fault, had |-> FALSE, overlap |-> FALSE, redo |-> NoRedo,
   status |-> StatusOf(ok), action |-> "none"]

NoStep == Step("none", [id |-> NoId, name |-> None], NoOwner, FALSE, FALSE)

Init ==
  /\ canon = [i \in Ids |-> NoRow]
  /\ collection = {}
  /\ calls = NoCalls
  /\ sync = NoSync
  /\ last = NoStep
  /\ taken = 0
  /\ found = NoFound
  /\ composed = NoComposed
  /\ chat = NoChat

\* the request (op, project) arriving now repeats the one answered just before
Redo(op, project) ==
  IF last.op = op /\ last.ok /\ last.project = project
    THEN [on |-> TRUE, owner |-> last.owner,
          entries |-> EntriesOf(collection, EntryId(project.id))]
    ELSE NoRedo

InFlight == Cardinality(calls)

\* the requests on the same project id that are waiting
Waiting(cs, id) == {c \in cs : c.project.id = id}

\* a new request may be taken
Accepts(op, project) ==
  /\ taken < MaxRequests
  /\ InFlight < MaxCalls
  /\ \A c \in calls : ~(c.op = op /\ c.project = project)

\* the record is in the canonical store and has not been deleted
Live(id) == canon[id] # NoRow /\ canon[id].is_active

\* ---- projects-service: canonical mutations ----------------------------------
\* POST /projects: create_project stores the row and answers; it sends nothing
\* to the embedding-service.
CanonCreate(id, name) ==
  /\ canon[id] = NoRow
  /\ \A j \in Ids : j < id => canon[j] # NoRow        \* autoincrement id
  /\ canon' = [canon EXCEPT ![id] = [name |-> name, is_active |-> TRUE]]
  /\ UNCHANGED <<others, collection, calls, sync, last, taken>>

\* PUT /projects/{id}: update_project rewrites the row's fields.
CanonUpdate(id, name) ==
  /\ canon[id] # NoRow
  /\ canon[id].name # name
  /\ canon' = [canon EXCEPT ![id].name = name]
  /\ UNCHANGED <<others, collection, calls, sync, last, taken>>

\* DELETE /projects/{id}: delete_project is a soft delete.
CanonDelete(id) ==
  /\ canon[id] # NoRow
  /\ canon[id].is_active
  /\ canon' = [canon EXCEPT ![id].is_active = FALSE]
  /\ UNCHANGED <<others, collection, calls, sync, last, taken>>

\* ---- embedding-service: single-record requests -------------------------------
\* POST /projects/index, or the webhook with action "create": index_project
\* starts and waits for the owner lookup.
StartIndex(project) ==
  /\ Accepts("index", project)
  /\ calls' = calls \cup {[op |-> "index", project |-> project, had |-> FALSE]}
  /\ last' = [last EXCEPT !.overlap = FALSE]
  /\ taken' = taken + 1
  /\ UNCHANGED <<others, canon, collection, sync>>

\* PUT /projects/{project_id}, or the webhook with action "update": the id of
\* the request is written into the record, update_project deletes the entry
\* (ignoring what delete_project returns), then index_project starts and waits.
StartUpdate(project_id, data, storeOk) ==
  LET project == [data EXCEPT !.id = project_id]
      del == delete_project(collection, project_id, storeOk)
      had == HasId(collection, EntryId(project_id))
      redo == Redo("update", project)
  IN  /\ Accepts("update", project)
      /\ collection' = del.coll
      /\ calls' = calls \cup {[op |-> "update", project |-> project, had |-> had]}
      /\ last' = [Step("update_delete", project, NoOwner, del.ok, ~storeOk)
                    EXCEPT !.had = had, !.redo = redo]
      /\ taken' = taken + 1
      /\ UNCHANGED <<others, canon, sync>>

\* The owner lookup of a waiting request answers: index_project runs to its
\* end and the request is answered.
FinishIndex(c, owner, embedOk, storeOk) ==
  LET r == index_project(collection, c.project, owner, embedOk, storeOk)
  IN  /\ c \in calls
      /\ collection' = r.coll
      /\ calls' = calls \ {c}
      /\ last' = [Step(c.op, c.project, owner, r.ok, ~(embedOk /\ storeOk))
                    EXCEPT !.had = IF c.op = "update" THEN c.had
                                   ELSE r.ok /\ HasId(collection, EntryId(c.project.id)),
                           !.overlap = r.ok /\ Waiting(calls \ {c}, c.project.id) # {},
                           !.redo = IF c.op = "index" THEN Redo("index", c.project)
                                    ELSE IF last.op = "update_delete"
                                            /\ last.project = c.project
                                      THEN last.redo
                                    ELSE NoRedo]
      /\ UNCHANGED <<others, canon, sync, taken>>

\* DELETE /projects/{project_id}, or the webhook with action "delete".
Delete(project_id, storeOk) ==
  LET del == delete_project(collection, project_id, storeOk)
      project == [id |-> project_id, name |-> None]
  IN  /\ taken < MaxRequests
      /\ taken' = taken + 1
      /\ collection' = del.coll
      /\ last' = [Step("delete", project, NoOwner, del.ok, ~storeOk)
                    EXCEPT !.had = HasId(collection, EntryId(project_id)),
                           !.redo = Redo("delete", project)]
      /\ UNCHANGED <<others, canon, calls, sync>>

\* ---- embedding-service: the webhook ----------------------------------------
\* schemas.py SyncRequest: project_id, action, data (Optional[RealEstateProject]).
\* NoData is a request without data; EmptyData is the JSON object {}, which
\* lacks the required field name.
Actions == {"create", "update", "delete", "invalid_action"}
NoData == [id |-> NoId, name |-> "null"]
EmptyData == [id |-> NoId, name |-> None]
SyncRequests ==
  [project_id : Ids, action : Actions,
   data : {d \in RealEstateProject : d.id = NoId} \cup {NoData, EmptyData}]

\* the request body passes the validation of SyncRequest
Parses(request) == request.data # EmptyData

\* webhook_project_sync up to the call it makes: the method of
\* EmbeddingService the request is handed to, or the status it is refused
\* with.  A body that does not parse is answered 422 before the handler runs.
webhook_project_sync(request) ==
  IF ~Parses(request) THEN [call |-> "none", status |-> 422]
  ELSE IF request.action = "create"
    THEN IF request.data # NoData THEN [call |-> "index", status |-> 0]
                                  ELSE [call |-> "none", status |-> 400]
  ELSE IF request.action = "update"
    THEN IF request.data # NoData THEN [call |-> "update", status |-> 0]
                                  ELSE [call |-> "none", status |-> 400]
  ELSE IF request.action = "delete" THEN [call |-> "delete", status |-> 0]
  ELSE [call |-> "none", status |-> 400]

\* POST /webhook/project-sync with a request that reaches no method of
\* EmbeddingService: it is answered with the refusal status.
WebhookRefuse(request) ==
  LET route == webhook_project_sync(request)
  IN  /\ taken < MaxRequests
      /\ route.call = "none"
      /\ taken' = taken + 1
      /\ last' = [Step("webhook", NoStep.project, NoOwner, FALSE, FALSE)
                    EXCEPT !.status = route.status, !.action = request.action]
      /\ UNCHANGED <<others, canon, collection, calls, sync>>

\* ---- embedding-service: bulk resync -------------------------------------------
FetchOutcomes == {"ok", "status_error", "network_error"}

\* sync_all_projects has counted the last fetched record: it returns the summary
Summed(sy) == IF sy.queue = <<>> THEN [sy EXCEPT !.pc = "done"] ELSE sy

\* a loop that returns its summary at the first record that fails
Counted_StopsAtFailure(sy, ok) ==
  IF ok THEN Summed([sy EXCEPT !.queue = Tail(sy.queue), !.indexed_count = @ + 1])
        ELSE [sy EXCEPT !.pc = "done", !.error_count = @ + 1]

\* the loop of sync_all_projects after index_project returned ok for the
\* record at the head of the queue
Counted(sy, ok) ==
  Summed([sy EXCEPT !.queue = Tail(sy.queue),
                    !.indexed_count = IF ok THEN @ + 1 ELSE @,
                    !.error_count = IF ok THEN @ ELSE @ + 1])

\* a resync that takes a failed fetch for an empty listing
Fetched_EmptyOnError(outcome, listing) ==
  Summed([pc |-> "run", fetch |-> outcome,
          queue |-> IF outcome = "ok" THEN listing ELSE <<>>,
          total_projects |-> IF outcome = "ok" THEN Len(listing) ELSE 0,
          indexed_count |-> 0, error_count |-> 0])

\* what sync_all_projects does with the answer of GET /projects
Fetched(outcome, listing) ==
  IF outcome = "ok"
    THEN Summed([pc |-> "run", fetch |-> outcome, queue |-> listing,
                 total_projects |-> Len(listing),
                 indexed_count |-> 0, error_count |-> 0])
    ELSE [NoSync EXCEPT !.pc = "failed", !.fetch = outcome]

\* a resync that empties the collection before it indexes the listing
SyncStart_Clears(outcome) ==
  /\ sync.pc = "idle"
  /\ sync' = Fetched(outcome, Listing(canon, 1))
  /\ collection' = IF outcome = "ok" THEN {} ELSE collection
  /\ last' = IF outcome = "ok" THEN last
             ELSE Step("sync_fetch", NoStep.project, NoOwner, FALSE, TRUE)
  /\ UNCHANGED <<others, canon, calls, taken>>

\* POST /sync/projects: GET /projects of the canonical store answers (or fails).
\* On status 200 the listing is parsed and the loop starts; otherwise
\* sync_all_projects returns {"success": False}.
SyncStart(outcome) ==
  /\ sync.pc = "idle"
  /\ sync' = Fetched(outcome, Listing(canon, 1))
  /\ last' = IF outcome = "ok" THEN last
             ELSE Step("sync_fetch", NoStep.project, NoOwner, FALSE, TRUE)
  /\ UNCHANGED <<others, canon, collection, calls, taken>>

\* One turn of the loop: index_project on the next fetched record, counted as
\* indexed or as an error.  A record of the listing carries no
\* construction_company_nit, so its owner lookup asks for the owner "None" and
\* gets no owner.
SyncStep(embedOk, storeOk) ==
  LET project == Head(sync.queue)
      owner == NoOwner
      r == index_project(collection, project, owner, embedOk, storeOk)
  IN  /\ sync.pc = "run"
      /\ sync.queue # <<>>
      /\ collection' = r.coll
      /\ sync' = Counted(sync, r.ok)
      /\ last' = [Step("sync_index", project, owner, r.ok, ~(embedOk /\ storeOk))
                    EXCEPT !.had = r.ok /\ HasId(collection, EntryId(project.id))]
      /\ UNCHANGED <<others, canon, calls, taken>>

\* what POST /sync/projects answers: the summary with 200, or 500
SyncStatus(sy) == IF sy.pc = "done" THEN 200 ELSE 500

\* the answer of the resync is taken by its caller
SyncReturn ==
  /\ sync.pc \in {"done", "failed"}
  /\ sync' = NoSync
  /\ UNCHANGED <<others, canon, collection, calls, last, taken>>

\* ---- the specifications -------------------------------------------------------
\* how the embedding model and the store may answer one call: both work, the
\* model raises, or the store raises
Answers == {<<TRUE, TRUE>>, <<FALSE, TRUE>>, <<TRUE, FALSE>>}

\* the body of an update request: its own id is overwritten by the request's
Bodies == {d \in RealEstateProject : d.id = NoId}

\* The single-record requests, in every interleaving of their steps.
Next ==
  \/ \E project \in RealEstateProject : StartIndex(project)
  \/ \E id \in Ids, data \in Bodies, storeOk \in BOOLEAN :
       StartUpdate(id, data, storeOk)
  \/ \E c \in Calls, owner \in OwnerAnswers, a \in Answers :
       FinishIndex(c, owner, a[1], a[2])
  \/ \E id \in Ids, storeOk \in BOOLEAN : Delete(id, storeOk)
  \/ \E request \in SyncRequests : WebhookRefuse(request)

Spec == Init /\ [][Next]_vars

\* The canonical store and the bulk resync that follows it.
NextSync ==
  \/ \E id \in Ids, name \in Names : CanonCreate(id, name)
  \/ \E id \in Ids, name \in Names : CanonUpdate(id, name)
  \/ \E id \in Ids : CanonDelete(id)
  \/ \E outcome \in FetchOutcomes : SyncStart(outcome)
  \/ \E a \in Answers : SyncStep(a[1], a[2])
  \/ SyncReturn

SpecSync == Init /\ [][NextSync]_vars

\* ---- projects-service: notifications -------------------------------------------
\* WebhookHandler.handle_project_created / updated / deleted: one POST of
\* notify_embedding_service to /webhook/project-sync with the record as the
\* canonical store holds it.  The answer is only logged: a delivery that
\* fails is not sent again.  No endpoint of projects-service calls these
\* handlers, so nothing is assumed about when, or whether, they run.
Record(id) == [id |-> id, name |-> canon[id].name]

handle_project_created(id) ==
  /\ Live(id)
  /\ StartIndex(Record(id))

handle_project_updated(id, storeOk) ==
  /\ Live(id)
  /\ StartUpdate(id, [Record(id) EXCEPT !.id = NoId], storeOk)

handle_project_deleted(id, storeOk) ==
  /\ canon[id] # NoRow /\ ~canon[id].is_active
  /\ Delete(id, storeOk)

\* the POST of notify_embedding_service raises or times out: the exception is
\* logged and the notification is gone
NotifyLost ==
  /\ taken < MaxRequests
  /\ \E id \in Ids : canon[id] # NoRow
  /\ taken' = taken + 1
  /\ UNCHANGED <<others, canon, collection, calls, sync, last>>

\* a request that waits for its owner lookup is answered
Answer == \E c \in Calls, owner \in OwnerAnswers, a \in Answers :
            FinishIndex(c, owner, a[1], a[2])

\* The canonical store, the notifications and the webhook that receives them.
NextNotify ==
  \/ \E id \in Ids, name \in Names : CanonCreate(id, name)
  \/ \E id \in Ids, name \in Names : CanonUpdate(id, name)
  \/ \E id \in Ids : CanonDelete(id)
  \/ \E id \in Ids : handle_project_created(id)
  \/ \E id \in Ids, storeOk \in BOOLEAN : handle_project_updated(id, storeOk)
  \/ \E id \in Ids, storeOk \in BOOLEAN : handle_project_deleted(id, storeOk)
  \/ NotifyLost
  \/ Answer

\* The event loop of the embedding-service runs every request to its answer.
SpecNotify == Init /\ [][NextNotify]_vars /\ WF_vars(Answer)

\* ---- embedding-service: the record as POST /projects/index takes it -----------
\* The JSON body of a record with the fields of both schema variants.  A text
\* field that is absent or null is None, a numeric one NullNum.  location is
\* absent, a plain string (the legacy variant) or an object (the nested one).
NullNum == -1
NoLocation == [kind |-> "none", address |-> None, city |-> None]
Locations ==
  {NoLocation,
   [kind |-> "text", address |-> "Calle 1", city |-> None],
   [kind |-> "nested", address |-> "Calle 1", city |-> "Cali"],
   [kind |-> "nested", address |-> None, city |-> None]}
NoPriceInfo == [kind |-> "none", min_price |-> NullNum, max_price |-> NullNum]
PriceInfos ==
  {NoPriceInfo,
   [kind |-> "nested", min_price |-> 100, max_price |-> 200],
   [kind |-> "nested", min_price |-> NullNum, max_price |-> NullNum]}
NoUnitInfo == [kind |-> "none", total_units |-> NullNum, available_units |-> NullNum]
UnitInfos ==
  {NoUnitInfo,
   [kind |-> "nested", total_units |-> 10, available_units |-> NullNum]}
RecordBodies ==
  [id : {1}, name : {"Torre"}, status : {None, "completo"},
   location : Locations, city : {None, "Cali"},
   price_info : PriceInfos,
   price_range_min : {NullNum, 100}, price_range_max : {NullNum, 200},
   unit_info : UnitInfos, total_units : {NullNum, 10}]

\* RealEstateProject(**body): location must be an object or null, so a body
\* whose location is a plain string does not validate (answer 422).
Validates(body) == body.location.kind # "text"

\* str(v) of a text value; what Python writes for str(None) is kept apart
\* from the value None
NoneText == "the text None"
Str(v) == IF v = None THEN NoneText ELSE v

\* v or "" on a text value, v or 0 on a number
OrEmpty(v) == IF v = None THEN "" ELSE v
OrZero(n) == IF n = NullNum THEN 0 ELSE n

\* the text entries of the metadata dict index_project builds
MetadataText(project, owner) ==
  LET base == [k \in {"name", "owner_name", "state"} |->
                 CASE k = "name" -> Str(OrEmpty(project.name))
                   [] k = "owner_name" ->
                        Str(IF owner # NoOwner THEN owner.name ELSE "")
                   [] k = "state" -> Str(project.status)]
      place == IF project.location.kind # "none"
                 THEN [k \in {"location", "city", "department"} |->
                         CASE k = "location" -> Str(OrEmpty(project.location.address))
                           [] k = "city" -> Str(OrEmpty(project.location.city))
                           [] k = "department" -> Str(OrEmpty(None))]
                 ELSE [k \in {"location", "city", "property_type"} |->
                         CASE k = "location" -> Str(OrEmpty(None))
                           [] k = "city" -> Str(OrEmpty(project.city))
                           [] k = "property_type" -> Str(OrEmpty(None))]
  IN  base @@ place

\* the numeric entries of the metadata dict index_project builds
MetadataNumbers(project) ==
  LET prices == IF project.price_info.kind # "none"
                  THEN <<OrZero(project.price_info.min_price),
                         OrZero(project.price_info.max_price)>>
                  ELSE <<OrZero(project.price_range_min),
                         OrZero(project.price_range_max)>>
      units == IF project.unit_info.kind # "none"
                 THEN <<OrZero(project.unit_info.total_units),
                        OrZero(project.unit_info.available_units)>>
                 ELSE <<OrZero(project.total_units), OrZero(NullNum)>>
  IN  [price_min |-> prices[1], price_max |-> prices[2],
       total_units |-> units[1], available_units |-> units[2]]

\* POST /projects/index with a body: the answer and, when index_project
\* reached collection.add, the metadata it wrote.
IndexBody(body, owner) ==
  /\ composed' =
       IF Validates(body)
         THEN [on |-> TRUE, body |-> body, owner |-> owner, status |-> 200,
               text |-> MetadataText(body, owner),
               numbers |-> MetadataNumbers(body)]
         ELSE [on |-> TRUE, body |-> body, owner |-> owner, status |-> 422,
               text |-> <<>>, numbers |-> <<>>]
  /\ UNCHANGED <<service, found, chat>>

NextCompose ==
  \E body \in RecordBodies, owner \in OwnerAnswers : IndexBody(body, owner)

\* Records of every shape, composed for the index.
SpecCompose == Init /\ [][NextCompose]_vars

\* ---- embedding-service: POST /search ------------------------------------------
\* the collections the index requests can build: at most one entry per id
Entries == {ComposeEntry(project, owner) :
              project \in {d \in RealEstateProject : d.id # NoId},
              owner \in OwnerAnswers}
Collections ==
  {coll \in SUBSET Entries : \A d \in coll, e \in coll : d.id = e.id => d = e}

\* every threshold between the least and the greatest distance that occurs
AllThresholds == 0..3

\* the set of the results of a search
ResultSet(coll, query, max_results, t) ==
  LET res == search_projects(coll, query, max_results, t)
  IN  {res[i] : i \in 1..Len(res)}

\* POST /search: search_projects answers the request from the collection.
Search(query, max_results, similarity_threshold) ==
  /\ found' = [query |-> query, max_results |-> max_results,
               similarity_threshold |-> similarity_threshold,
               results |-> search_projects(collection, query, max_results,
                                           similarity_threshold)]
  /\ UNCHANGED <<service, composed, chat>>

InitSearch ==
  /\ collection \in Collections
  /\ canon = [i \in Ids |-> NoRow] /\ calls = NoCalls /\ sync = NoSync
  /\ last = NoStep /\ taken = 0
  /\ found = NoFound /\ composed = NoComposed /\ chat = NoChat

NextSearch ==
  \E query \in Queries, n \in ResultCaps, t \in AllThresholds : Search(query, n, t)

\* Searches on every collection the index requests can build.
SpecSearch == InitSearch /\ [][NextSearch]_vars

\* ---- chat-api: SearchService ----------------------------------------------------
\* Scores are counted in thousandths: One stands for 1.0.
One == 1000

\* the raw scores a hit may carry: the distance the vector store reports.
Scores == {300, 1500}

\* GET /projects/{id} of the projects-service: the fields SearchService reads.
NoBody ==
  [location |-> [kind |-> "none", city |-> "", department |-> ""],
   price_info |-> [min_price |-> 0], amenities |-> {},
   unit_info |-> [available_units |-> 0, total_units |-> 0]]
Details ==
  { [location |-> [kind |-> "nested", city |-> "Cali", department |-> "Valle"],
     price_info |-> [min_price |-> 150], amenities |-> {"piscina", "gimnasio"},
     unit_info |-> [available_units |-> 4, total_units |-> 10]],
    [location |-> [kind |-> "nested", city |-> "Bogota", department |-> ""],
     price_info |-> [min_price |-> 90], amenities |-> {"gimnasio"},
     unit_info |-> [available_units |-> 12, total_units |-> 10]],
    [location |-> [kind |-> "nested", city |-> "Cali", department |-> "Valle"],
     price_info |-> [min_price |-> 150], amenities |-> {},
     unit_info |-> [available_units |-> 0, total_units |-> 0]] }

\* the answers of GET /projects/{id}: 200 with a body, 404, or no answer at
\* all (status 0: the request raised).
HydrationAnswers ==
  [status : {200}, body : Details] \cup [status : {404, 0}, body : {NoBody}]

\* the filters of a request: a dict whose keys may be missing.
NoAmenities == [kind |-> "none", items |-> <<>>]
AmenityFilters ==
  { NoAmenities,
    [kind |-> "list", items |-> <<"piscina">>],
    [kind |-> "list", items |-> <<"piscina", "gimnasio">>],
    [kind |-> "single", items |-> <<"piscina">>] }
NoRange == [on |-> FALSE, min |-> 0, max |-> 0]
PriceRanges == {NoRange, [on |-> TRUE, min |-> 100, max |-> 200]}
LocationFilters == {<<>>, <<"Cali">>}      \* the words of filters["location"]
Filters ==
  [location : LocationFilters, amenities : AmenityFilters,
   price_range : PriceRanges]

\* the answers of POST /search of the vector search backend
SearchOutcomes == {"ok", "error", "unreachable"}

\* one hit of the answer: the entry id, the top-level project_id when the
\* answer carries one (NoId when the key is missing) and the score.
Hit(k, keyed, score) ==
  [id |-> EntryId(k), project_id |-> IF keyed THEN k ELSE NoId, score |-> score]

\* the hit lists of an answer: distinct projects, in any order.
HitLists(keyed) ==
  UNION { { [k \in 1..n |-> Hit(f[k][1], keyed, f[k][2])] :
              f \in {g \in [1..n -> Ids \X Scores] :
                       \A a \in 1..n, b \in 1..n : g[a][1] = g[b][1] => a = b} } :
          n \in 0..MaxId }

\* _search_embedding_service: the results of a 200 answer, [] otherwise.
_search_embedding_service(outcome, results) ==
  IF outcome = "ok" THEN results ELSE <<>>

\* _get_project_details: one GET per top-level project_id; a 200 answer is
\* kept with the score of its hit, any other answer is skipped.
_get_project_details(search_results, answers) ==
  LET keyed == SelectSeq([k \in 1..Len(search_results) |-> k],
                         LAMBDA k : search_results[k].project_id # NoId)
      kept  == SelectSeq(keyed, LAMBDA k : answers[k].status = 200)
  IN  [j \in 1..Len(kept) |->
         [id           |-> search_results[kept[j]].project_id,
          location     |-> answers[kept[j]].body.location,
          price_info   |-> answers[kept[j]].body.price_info,
          amenities    |-> answers[kept[j]].body.amenities,
          unit_info    |-> answers[kept[j]].body.unit_info,
          search_score |-> search_results[kept[j]].score]]

_get_project_price(p) == p.price_info.min_price
_get_project_amenities(p) == p.amenities

\* _get_project_location: "city department", stripped; a text is the sequence
\* of its words.
_get_project_location(p) ==
  SelectSeq(<<p.location.city, p.location.department>>, LAMBDA w : w # "")

LowerAll(text) == [i \in 1..Len(text) |-> Lower(text[i])]

\* needle in hay, for texts
Contains(hay, needle) ==
  \E i \in 1..(Len(hay) + 1) :
     /\ i + Len(needle) - 1 <= Len(hay)
     /\ SubSeq(hay, i, i + Len(needle) - 1) = needle

Required(filters) == {filters.amenities.items[i] : i \in 1..Len(filters.amenities.items)}

\* _apply_filters: price, then amenities (only a list is applied), then location.
_apply_filters(projects, filters) ==
  LET byPrice == IF filters.price_range.on
                   THEN SelectSeq(projects, LAMBDA p :
                          /\ _get_project_price(p) >= filters.price_range.min
                          /\ _get_project_price(p) <= filters.price_range.max)
                   ELSE projects
      byAmenities == IF filters.amenities.kind = "list"
                       THEN SelectSeq(byPrice, LAMBDA p :
                              Required(filters) \subseteq _get_project_amenities(p))
                       ELSE byPrice
  IN  IF filters.location # <<>>
        THEN SelectSeq(byAmenities, LAMBDA p :
               Contains(LowerAll(_get_project_location(p)),
                        LowerAll(filters.location)))
        ELSE byAmenities

Min(a, b) == IF a < b THEN a ELSE b

_calculate_location_score(p, filters) ==
  LET project_location == LowerAll(_get_project_location(p))
      filter_location == LowerAll(filters.location)
  IN  IF filters.location = <<>> THEN 500
      ELSE IF Contains(project_location, filter_location) THEN One
      ELSE IF \E i \in 1..Len(filter_location) :
                 Contains(project_location, <<filter_location[i]>>) THEN 700
      ELSE 300

_calculate_price_score(p, filters) ==
  IF ~filters.price_range.on THEN 500
  ELSE IF /\ filters.price_range.min <= _get_project_price(p)
          /\ _get_project_price(p) <= filters.price_range.max THEN One
  ELSE IF _get_project_price(p) < filters.price_range.min THEN 300
  ELSE 100

_calculate_amenities_score(p, filters) ==
  LET items == filters.amenities.items
      matches == Cardinality({i \in 1..Len(items) :
                                items[i] \in _get_project_amenities(p)})
  IN  IF filters.amenities.kind = "none" THEN 500
      ELSE IF filters.amenities.kind = "list"
             THEN Min((matches * One) \div Len(items), One)
      ELSE IF items[1] \in _get_project_amenities(p) THEN One ELSE 0

_calculate_availability_score(p) ==
  IF p.unit_info.total_units > 0
    THEN Min((p.unit_info.available_units * One) \div p.unit_info.total_units, One)
    ELSE 500

\* round(x, 3) of a sum counted in millionths
Round3(millionths) == (millionths + 500) \div 1000

\* the final_score _rank_projects gives a project
FinalScore(p, filters) ==
  Round3(p.search_score * 400
         + _calculate_location_score(p, filters) * 250
         + _calculate_price_score(p, filters) * 200
         + _calculate_amenities_score(p, filters) * 100
         + _calculate_availability_score(p) * 50)

\* sorted(projects, key=final_score, reverse=True): a stable sort, projects
\* with the same final_score keep the order they came in.
SortedByScore(scored) ==
  LET place(i) == 1 + Cardinality({j \in 1..Len(scored) :
                       \/ scored[j].final_score > scored[i].final_score
                       \/ /\ scored[j].final_score = scored[i].final_score
                          /\ j < i})
  IN  [k \in 1..Len(scored) |->
         scored[CHOOSE i \in 1..Len(scored) : place(i) = k]]

\* _rank_projects: every project gets its final_score, then the sort.
_rank_projects(projects, filters) ==
  SortedByScore([i \in 1..Len(projects) |->
     [id           |-> projects[i].id,
      location     |-> projects[i].location,
      price_info   |-> projects[i].price_info,
      amenities    |-> projects[i].amenities,
      unit_info    |-> projects[i].unit_info,
      search_score |-> projects[i].search_score,
      final_score  |-> FinalScore(projects[i], filters)]])

\* SearchService.search_projects: the stages of one request.
SearchService_search_projects(filters, outcome, results, answers) ==
  LET search_results == _search_embedding_service(outcome, results)
      projects_with_details == _get_project_details(search_results, answers)
      filtered_projects == _apply_filters(projects_with_details, filters)
  IN  [search_results |-> search_results,
       projects_with_details |-> projects_with_details,
       filtered_projects |-> filtered_projects,
       ranked_projects |-> _rank_projects(filtered_projects, filters)]

\* ProjectInfo of the chat-api: location must be a string.
ProjectInfoValidates(p) == p.location.kind = "text"

\* config.py SEARCH_MAX_RESULTS: the max_results sent to the vector search.
SEARCH_MAX_RESULTS == 10

\* SearchRequest.max_results of the chat-api
MaxResults == {1, SEARCH_MAX_RESULTS}

\* POST /chat/search: the service is asked with the filters of the request
\* (max_results is not passed on) and its list is wrapped in a
\* SearchResponse; a list that does not validate is answered 500.
ChatSearch(filters, max_results, outcome, results, answers) ==
  LET run == SearchService_search_projects(filters, outcome, results, answers)
      projects == run.ranked_projects
  IN  /\ ~chat.on
      /\ chat' = [on |-> TRUE, filters |-> filters,
                  max_results |-> max_results, outcome |-> outcome,
                  results |-> results, answers |-> answers,
                  filtered |-> run.filtered_projects,
                  projects |-> projects,
                  status |-> IF \A i \in 1..Len(projects) :
                                   ProjectInfoValidates(projects[i])
                               THEN 200 ELSE 500]
      /\ UNCHANGED <<service, found, composed>>

\* The requests of one observation: SearchService keeps nothing between two
\* requests, so one request per behaviour covers them all.
NextChat ==
  \E filters \in Filters, max_results \in MaxResults,
     outcome \in SearchOutcomes, keyed \in BOOLEAN :
    \E results \in (IF outcome = "ok" THEN HitLists(keyed) ELSE {<<>>}) :
      \E answers \in [1..Len(results) -> HydrationAnswers] :
        ChatSearch(filters, max_results, outcome, results, answers)

SpecChat == Init /\ [][NextChat]_vars

TypeOK ==
  /\ \A i \in Ids : canon[i] = NoRow \/ canon[i] \in Rows
  /\ Cardinality(collection) <= MaxId
  /\ sync.indexed_count + sync.error_count <= sync.total_projects

\* ---- properties ------------------------------------------------------------------
\* the results of every search a client may ask for
Searches == Queries \X ResultCaps \X Thresholds

Results(coll, sq) == search_projects(coll, sq[1], sq[2], sq[3])

\* some search returns the entry of this id
Surfaces(coll, eid) ==
  \E sq \in Searches : \E i \in 1..Len(Results(coll, sq)) : Results(coll, sq)[i].id = eid

\* the collection holds exactly the entry composed from (project, owner) for
\* the id of project
Holds(coll, project, owner) ==
  EntriesOf(coll, EntryId(project.id)) = {ComposeEntry(project, owner)}

\* C1: whenever no resync and no request is under way, the collection holds
\* exactly one entry project_{id} for every live record of the canonical store
\* and none for any other id.
C1_IndexFollowsCanon ==
  (sync.pc = "idle" /\ calls = {}) =>
    \A id \in Ids :
      Cardinality(EntriesOf(collection, EntryId(id))) = (IF Live(id) THEN 1 ELSE 0)

\* C2: once update_project has returned True for a record v2 whose id had an
\* entry when the update came in, every search result for that id carries the
\* metadata and the document composed from v2 (until the collection is reached
\* again).
C2_UpdateSurfacesNewContent ==
  (last.op = "update" /\ last.ok /\ last.had) =>
    \A sq \in Searches : \A i \in 1..Len(Results(collection, sq)) :
      LET r == Results(collection, sq)[i]
          v2 == ComposeEntry(last.project, last.owner)
      IN  r.id = EntryId(last.project.id) =>
            r.metadata = v2.metadata /\ r.document = v2.document

\* C3: once delete_project has returned True for an id, no search returns the
\* entry of that id; and an id without an entry gets one only by an index,
\* update or resync step that returns True for that id.
C3_NoHitAfterDelete ==
  (last.op = "delete" /\ last.ok) =>
    /\ ~HasId(collection, EntryId(last.project.id))
    /\ ~Surfaces(collection, EntryId(last.project.id))

C3_OnlyIndexBringsBack ==
  \A id \in Ids :
    (~HasId(collection, EntryId(id)) /\ HasId(collection', EntryId(id))) =>
      /\ last'.op \in {"index", "update", "sync_index"}
      /\ last'.ok
      /\ last'.project.id = id

C3_DeleteCorrect == [](C3_NoHitAfterDelete) /\ [][C3_OnlyIndexBringsBack]_vars

\* a deleted id had an entry, and another entry is still returned by a search
C3_Witness ==
  /\ last.op = "delete" /\ last.ok /\ last.had
  /\ \E sq \in Searches : Len(Results(collection, sq)) > 0

\* C4: when index_project finishes for the record that the index_project call
\* answered with True just before was given, the collection count and the
\* results of every search are what they were after that first call.
C4_Step ==
  \A c \in calls :
    (c.op = "index" /\ c \notin calls'
       /\ last.op = "index" /\ last.ok /\ last.project = c.project) =>
      /\ CollectionCount(collection') = CollectionCount(collection)
      /\ \A sq \in Searches : Results(collection', sq) = Results(collection, sq)

C4_IndexTwice == [][C4_Step]_vars

\* the second of two index calls with the same record has returned True, and
\* a search returns the entry
C4_Witness ==
  /\ last.op = "index" /\ last.ok /\ last.redo.on
  /\ Surfaces(collection, EntryId(last.project.id))

\* C5: once index_project has returned True for a record, the collection holds
\* exactly one entry for its id, and the vector, document and metadata of that
\* entry are the ones composed from that record.
C5_LastWriteWins ==
  (last.op = "index" /\ last.ok) => Holds(collection, last.project, last.owner)

\* C6: a webhook delivered again with the same payload, right after the
\* delivery that succeeded, reports success and leaves the entries of the id as
\* the first delivery left them (no fault of the store or the embedder during
\* the second delivery, same owner answer); a delete for an id that has no
\* entry reports success and leaves the id without entry.
C6_SameAsFirstDelivery ==
  (last.redo.on /\ last.op \in {"index", "update", "delete"} /\ ~last.fault) =>
    /\ last.ok
    /\ last.owner = last.redo.owner =>
         EntriesOf(collection, EntryId(last.project.id)) = last.redo.entries

C6_DeleteOfAbsent ==
  (last.op = "delete" /\ ~last.had /\ ~last.fault) =>
    last.ok /\ ~HasId(collection, EntryId(last.project.id))

C6_RedeliveryIdempotent == C6_SameAsFirstDelivery /\ C6_DeleteOfAbsent

\* C7: when the second of two overlapping index or update calls on one id
\* returns True after the first returned True, the collection holds exactly
\* one entry for the id and that entry is the one composed by one of the two.
C7_Step ==
  \A c \in calls :
    (c \notin calls' /\ last.overlap /\ last'.ok
       /\ c.project.id = last.project.id) =>
      \/ Holds(collection', last.project, last.owner)
      \/ Holds(collection', last'.project, last'.owner)

C7_OneCallWins == [][C7_Step]_vars

\* C8: a resync whose listing was fetched does not fail: it counts every
\* fetched record exactly once, as indexed when index_project returned True
\* and as an error otherwise, goes on to the next record after a failure, and
\* returns the summary with total_projects = the number of fetched records
\* and indexed_count + error_count = total_projects.
C8_Summary ==
  /\ sync.pc = "run" =>
       /\ sync.queue # <<>>
       /\ sync.total_projects =
            sync.indexed_count + sync.error_count + Len(sync.queue)
  /\ sync.pc = "done" =>
       /\ sync.queue = <<>>
       /\ sync.total_projects = sync.indexed_count + sync.error_count
       /\ SyncStatus(sync) = 200

C8_Step ==
  /\ (sync.pc = "idle" /\ sync'.fetch = "ok") =>
       /\ sync'.pc \in {"run", "done"}
       /\ sync'.total_projects = Cardinality({id \in Ids : Live(id)})
       /\ sync'.indexed_count = 0 /\ sync'.error_count = 0
  /\ (sync.pc = "run" /\ sync' # sync) =>
       /\ sync'.pc \in {"run", "done"}
       /\ sync'.total_projects = sync.total_projects
       /\ sync'.queue = Tail(sync.queue)
       /\ last'.project = Head(sync.queue)
       /\ sync'.indexed_count = sync.indexed_count + (IF last'.ok THEN 1 ELSE 0)
       /\ sync'.error_count = sync.error_count + (IF last'.ok THEN 0 ELSE 1)

C8_ResyncCounts == []C8_Summary /\ [][C8_Step]_vars

\* a resync has returned its summary after one record failed and a later one
\* was indexed
C8_Witness ==
  /\ sync.pc = "done" /\ sync.error_count >= 1 /\ sync.indexed_count >= 1
  /\ last.op = "sync_index" /\ last.ok

\* C9: when GET /projects fails at the start of a resync (network error or a
\* status other than 200), POST /sync/projects answers 500 without a summary,
\* and the step leaves every entry of the collection as it was.
C9_Failed ==
  sync.fetch \in {"status_error", "network_error"} =>
    /\ sync.pc = "failed"
    /\ SyncStatus(sync) = 500
    /\ sync.total_projects = 0 /\ sync.indexed_count = 0 /\ sync.error_count = 0

C9_Step ==
  (sync.pc = "idle" /\ sync'.fetch \in {"status_error", "network_error"}) =>
    collection' = collection

C9_FetchFailure == []C9_Failed /\ [][C9_Step]_vars

\* the fetch of a resync has failed while the collection holds entries
C9_Witness ==
  /\ sync.pc = "failed" /\ sync.fetch = "network_error"
  /\ last.op = "sync_fetch" /\ collection # {}

\* C10: once the resync has counted a fetched record as indexed, the collection
\* holds exactly one entry for its id, composed from the record as fetched.
C10_ResyncRefreshes ==
  (last.op = "sync_index" /\ last.ok) =>
    Holds(collection, last.project, last.owner)

\* C11: a create, update or delete request is answered 200 only when the
\* mutation was applied - after a create or update the collection holds
\* exactly the entry composed from the delivered record, after a delete the
\* id has no entry - and a request whose method returned False is answered
\* with an error status.
C11_WebhookStatus ==
  /\ (last.op \in {"index", "update"} /\ last.status = 200) =>
       Holds(collection, last.project, last.owner)
  /\ (last.op = "delete" /\ last.status = 200) =>
       ~HasId(collection, EntryId(last.project.id))
  /\ (last.op \in {"index", "update", "delete"} /\ ~last.ok) =>
       last.status = 500

\* C12: a webhook request whose action is none of create, update, delete is
\* answered 400 whatever its data holds, and the step leaves the collection
\* as it was.
C12_Answered400 ==
  (last.op = "webhook" /\ last.action \notin {"create", "update", "delete"}) =>
    last.status = 400

C12_Step ==
  (last'.op = "webhook" /\ taken' # taken) => collection' = collection

C12_InvalidAction == []C12_Answered400 /\ [][C12_Step]_vars

\* C13: every record the canonical store holds live is eventually held by the
\* collection with its canonical content (unless the canonical store changes
\* it first), and every deleted record eventually has no entry.
C13_EventuallyReflected ==
  /\ \A id \in Ids : \A name \in Names :
       (canon[id] = [name |-> name, is_active |-> TRUE]) ~>
         \/ canon[id] # [name |-> name, is_active |-> TRUE]
         \/ \E owner \in OwnerAnswers :
              Holds(collection, [id |-> id, name |-> name], owner)
  /\ \A id \in Ids :
       (canon[id] # NoRow /\ ~canon[id].is_active) ~>
         ~HasId(collection, EntryId(id))

\* C14: for the same collection, query and max_results and two thresholds
\* t1 < t2, every result search_projects returns at t2 is among those it
\* returned at t1.
C14_ThresholdMonotone ==
  \A t2 \in AllThresholds :
    (found # NoFound /\ found.similarity_threshold < t2) =>
      ResultSet(collection, found.query, found.max_results, t2)
        \subseteq {found.results[i] : i \in 1..Len(found.results)}

\* a search has returned results of which a higher threshold keeps some and
\* drops some
C14_Witness ==
  \E t2 \in AllThresholds :
    /\ found # NoFound /\ found.similarity_threshold < t2
    /\ ResultSet(collection, found.query, found.max_results, t2) # {}
    /\ ResultSet(collection, found.query, found.max_results, t2)
         # {found.results[i] : i \in 1..Len(found.results)}

\* C15: the metadata index_project writes holds no null, and a field the
\* record leaves out is written as its typed default: the empty string for
\* status, location, city and owner, zero for prices and unit counts.
C15_TypedDefaults ==
  (composed.on /\ composed.status = 200) =>
    LET body == composed.body
        text == composed.text
        numbers == composed.numbers
    IN  /\ \A k \in DOMAIN text : text[k] # None
        /\ \A k \in DOMAIN numbers : numbers[k] # NullNum
        /\ body.status = None => text["state"] = ""
        /\ composed.owner = NoOwner => text["owner_name"] = ""
        /\ body.location.kind = "none" => text["location"] = ""
        /\ (body.location.kind = "none" /\ body.city = None) => text["city"] = ""
        /\ (body.price_info.kind = "none" /\ body.price_range_min = NullNum) =>
             numbers.price_min = 0
        /\ (body.unit_info.kind = "none" /\ body.total_units = NullNum) =>
             numbers.total_units = 0

\* a record of the legacy flat variant: location a plain string, prices and
\* unit counts as flat fields
IsLegacy(body) ==
  /\ body.location.kind = "text"
  /\ body.price_info.kind = "none"
  /\ body.unit_info.kind = "none"

\* the record of the nested variant that says the same
Nested(body) ==
  [body EXCEPT
     !.location = [kind |-> "nested", address |-> body.location.address,
                   city |-> body.city],
     !.city = None,
     !.price_info = [kind |-> "nested", min_price |-> body.price_range_min,
                     max_price |-> body.price_range_max],
     !.price_range_min = NullNum,
     !.price_range_max = NullNum,
     !.unit_info = [kind |-> "nested", total_units |-> body.total_units,
                    available_units |-> NullNum],
     !.total_units = NullNum]

\* the canonical part of a metadata dict
Canonical(text, numbers) ==
  [location |-> text["location"], city |-> text["city"],
   price_min |-> numbers.price_min, price_max |-> numbers.price_max,
   total_units |-> numbers.total_units,
   available_units |-> numbers.available_units]

\* C16: a record of the legacy flat variant is accepted (answer 200) and the
\* canonical metadata written for it (location, city, price_min, price_max,
\* total_units, available_units) is that of the nested record that says the
\* same.
C16_LegacyAccepted ==
  (composed.on /\ IsLegacy(composed.body)) =>
    /\ composed.status = 200
    /\ Canonical(composed.text, composed.numbers) =
         Canonical(MetadataText(Nested(composed.body), composed.owner),
                   MetadataNumbers(Nested(composed.body)))

\* C17: whenever a request supplies an amenities filter, as a list or as a
\* single value, every project in the output of SearchService.search_projects
\* has every required amenity.
C17_AmenitiesFilter ==
  (chat.on /\ chat.filters.amenities.kind # "none") =>
    \A i \in 1..Len(chat.projects) :
       Required(chat.filters) \subseteq _get_project_amenities(chat.projects[i])

\* the orders in which the same candidates may arrive
Arrivals(projects) ==
  {[i \in 1..Len(projects) |-> projects[f[i]]] :
     f \in {g \in [1..Len(projects) -> 1..Len(projects)] :
              \A a, b \in 1..Len(projects) : g[a] = g[b] => a = b}}

\* C18: _rank_projects gives the same output order and the same final_score
\* to the same candidates under the same filters, whatever order the
\* candidates arrive in.
C18_RankDeterministic ==
  chat.on =>
    \A arrival \in Arrivals(chat.filtered) :
       _rank_projects(arrival, chat.filters) = chat.projects

\* the five components of a ranked project, before their weights
Components(p, filters) ==
  [semantic     |-> p.search_score,
   location     |-> _calculate_location_score(p, filters),
   price        |-> _calculate_price_score(p, filters),
   amenities    |-> _calculate_amenities_score(p, filters),
   availability |-> _calculate_availability_score(p)]

\* C19: every ranked project has final_score = 0.40*semantic + 0.25*location
\* + 0.20*price + 0.10*amenities + 0.05*availability, every component lies in
\* [0,1] and so does final_score, for every raw search score and every pair
\* of available and total units.
C19_ConvexScore ==
  chat.on =>
    \A i \in 1..Len(chat.projects) :
       LET p == chat.projects[i]
           c == Components(p, chat.filters)
       IN  /\ \A k \in DOMAIN c : c[k] >= 0 /\ c[k] <= One
           /\ p.final_score = Round3(400 * c.semantic + 250 * c.location
                                     + 200 * c.price + 100 * c.amenities
                                     + 50 * c.availability)
           /\ p.final_score >= 0 /\ p.final_score <= One

C21_NoIntermediateState ==
  \A c \in calls :
     (c.op = "update" /\ c.had) => Surfaces(collection, EntryId(c.project.id))

\* the ids of the results of the last search
Returned == {found.results[i].id : i \in 1..Len(found.results)}

\* C22: among the k nearest entries of a search, a better match (nearer to the
\* query) is never discarded by the threshold while a worse one is returned.
C22_BetterNeverDiscarded ==
  (found # NoFound) =>
    LET q == generate_embedding(found.query)
        hits == CollectionQuery(collection, q, found.max_results)
    IN  \A i \in 1..Len(hits), j \in 1..Len(hits) :
           (/\ hits[j].id \in Returned
            /\ Distance(q, hits[i].embedding) < Distance(q, hits[j].embedding))
           => hits[i].id \in Returned

\* the candidates that reached _apply_filters in the last request
Hydrated ==
  _get_project_details(_search_embedding_service(chat.outcome, chat.results),
                       chat.answers)

\* C23: _apply_filters keeps, in their order, exactly the candidates that pass
\* every supplied filter: price within [min,max], every required amenity
\* present, the location filter contained in the project's location; a filter
\* that is not supplied removes nothing.
C23_FiltersExact ==
  chat.on =>
    LET f == chat.filters
        passes(p) ==
          /\ f.price_range.on =>
               /\ p.price_info.min_price >= f.price_range.min
               /\ p.price_info.min_price <= f.price_range.max
          /\ f.amenities.kind # "none" => Required(f) \subseteq p.amenities
          /\ f.location # <<>> =>
               Contains(LowerAll(_get_project_location(p)), LowerAll(f.location))
    IN  chat.filtered = SelectSeq(Hydrated, passes)

\* C24: the ranked output is sorted by final_score descending, and projects
\* with the same final_score come in ascending order of their ids.
C24_SortedTieById ==
  chat.on =>
    \A i \in 1..Len(chat.projects), j \in 1..Len(chat.projects) :
       i < j =>
         \/ chat.projects[i].final_score > chat.projects[j].final_score
         \/ /\ chat.projects[i].final_score = chat.projects[j].final_score
            /\ chat.projects[i].id < chat.projects[j].id

NoFilters == [location |-> <<>>, amenities |-> NoAmenities, price_range |-> NoRange]

\* C26: when GET /projects/{id} is down for every candidate of a query, the
\* query still returns its candidates (here, without filters, all of them)
\* instead of failing or coming back empty.
C26_HydrationOutageDegrades ==
  (/\ chat.on /\ chat.outcome = "ok" /\ chat.results # <<>>
   /\ chat.filters = NoFilters
   /\ \A k \in 1..Len(chat.answers) : chat.answers[k].status = 0)
  => {EntryId(chat.projects[i].id) : i \in 1..Len(chat.projects)}
       = {chat.results[k].id : k \in 1..Len(chat.results)}

\* C27: with the results in the shape the embedding-service answers (the id
\* of the entry, no top-level project_id), every candidate that hydrates with
\* a 200 answer and passes every supplied filter is in the output of
\* SearchService.search_projects.
C27_OnlyHydrationAndFilters ==
  (chat.on /\ chat.outcome = "ok") =>
    LET f == chat.filters
        passes(p) ==
          /\ f.price_range.on =>
               /\ p.price_info.min_price >= f.price_range.min
               /\ p.price_info.min_price <= f.price_range.max
          /\ f.amenities.kind # "none" => Required(f) \subseteq p.amenities
          /\ f.location # <<>> =>
               Contains(LowerAll(_get_project_location(p)), LowerAll(f.location))
    IN  \A k \in 1..Len(chat.results) :
           (/\ chat.results[k].project_id = NoId
            /\ chat.answers[k].status = 200
            /\ passes(chat.answers[k].body))
           => \E i \in 1..Len(chat.projects) :
                 EntryId(chat.projects[i].id) = chat.results[k].id

\* the step in which an update is answered while the index holds no entry for
\* its id: its delete step removed the entry and nothing has added one since
UpdateAnswered ==
  /\ calls' # calls
  /\ last'.op = "update"
  /\ ~HasId(collection, EntryId(last'.project.id))

\* the answered update reported failure and left no entry for its id
FailedAndGone ==
  /\ ~last'.ok /\ last'.status = 500
  /\ ~HasId(collection', EntryId(last'.project.id))

\* C28 as stated: an update whose owner lookup, embedding or insert fails
\* after its delete step reports failure and leaves no entry for the id.
C28_AsStated ==
  [][(UpdateAnswered /\ (last'.fault \/ last'.owner = NoOwner)) => FailedAndGone]_vars

\* after the delete step of an update has succeeded, and until another request
\* is answered, the index holds no entry for the id
C28_GoneAfterDelete ==
  (last.op = "update_delete" /\ last.ok) =>
    ~HasId(collection, EntryId(last.project.id))

\* C28, amended: an update whose embedding or insert fails after its delete
\* step reports failure and leaves no entry for the id (the old entry is
\* neither kept nor restored), and so does a stop between the two steps,
\* which reports nothing; a failed owner lookup does not fail the update.
C28_FailedUpdate ==
  /\ []C28_GoneAfterDelete
  /\ [][(UpdateAnswered /\ last'.fault) => FailedAndGone]_vars

\* an update of an id that had an entry has failed and the id has no entry
C28_Witness ==
  /\ last.op = "update" /\ ~last.ok /\ last.fault /\ last.had
  /\ ~HasId(collection, EntryId(last.project.id))

\* the step in which an index_project call returns
IndexReturns == calls' # calls /\ calls' \subseteq calls

\* C29: whenever index_project reports failure (the project id is missing,
\* generate_embedding raises or the store rejects the insert), the call has
\* changed nothing: the collection holds the same entries with the same
\* content as before.
C29_FailureChangesNothing ==
  [][(IndexReturns /\ ~last'.ok) => collection' = collection]_vars

\* an index_project on an id that has an entry has failed
C29_Witness ==
  /\ last.op = "index" /\ ~last.ok /\ last.fault
  /\ HasId(collection, EntryId(last.project.id))

\* C30: a bulk resync never removes an index entry: every id that has an
\* entry before a step of sync_all_projects still has one after it, whether
\* or not its record is in the canonical listing.
C30_ResyncRemovesNothing ==
  [][\A id \in Ids : HasId(collection, EntryId(id)) => HasId(collection', EntryId(id))]_vars

\* a resync whose listing was empty has run to its end and the index still
\* holds the entry of a record that is no longer listed
C30_Witness ==
  /\ sync.pc = "done" /\ sync.total_projects = 0
  /\ \E id \in Ids : ~Live(id) /\ HasId(collection, EntryId(id))

====
